---- MODULE Spec2Model ----
(***************************************************************************)
(* Model of the AI engine's gRPC front end (ai/src/main.py): the work      *)
(* queue and its consumer, the per-pod registries, the StartTraining       *)
(* handler as the sequence of reads and writes its worker thread performs, *)
(* the training threads that dispatch_train_agent launches, the registry   *)
(* of saved models with ExportModel and ImportModel, and the main thread   *)
(* on its way to shutdown.                                                 *)
(*                                                                         *)
(* main.py imports EventLoop, DataManager, Trainer, validate_rewards,      *)
(* get_agent, GetInferenceHandler and cleanup_on_shutdown from modules     *)
(* that are not part of the sources at hand; the definitions that stand    *)
(* for them follow the specification text and are marked so.               *)
(***************************************************************************)
EXTENDS Integers, Sequences, FiniteSets, TLC

\* ------------------------------------------------------------------ bounds

Pods == {"p1", "p2"}
\* the request-handling threads that serve StartTraining (two of the pool's ten)
Workers == {"w1", "w2"}

MaxTime == 2      \* timestamps are 0..MaxTime
MaxCmds == 3      \* commands ever put on the work queue
MaxCalls == 2     \* StartTraining calls ever made
MaxSignals == 2   \* SIGINT signals ever delivered

Times == 0..MaxTime

\* DataManager parameters (the same for every pod)
WindowSpan == 2   \* data_manager.get_window_span()
PeriodSecs == 1   \* data_manager.param.period_secs

\* ---------------------------------------------------------------- requests

ActionNames == {"a1", "a2"}
FieldNames == {"f1", "f2"}

\* A reward function: whether it parses, and the names it refers to.
GoodReward == [wellformed |-> TRUE, refs |-> {"a1", "f1"}]
MalformedReward == [wellformed |-> FALSE, refs |-> {}]
UndeclaredActionReward == [wellformed |-> TRUE, refs |-> {"a2"}]
UndeclaredFieldReward == [wellformed |-> TRUE, refs |-> {"f2"}]

\* request.actions: action name -> reward function, as a set of pairs
ActionChoices ==
    {{}} \cup {{[name |-> "a1", reward |-> r]} :
                 r \in {GoodReward, MalformedReward, UndeclaredActionReward,
                        UndeclaredFieldReward}}

FieldChoices == {{}, {"f1"}}

InitRequests ==
    [pod : Pods, actions : ActionChoices, fields : FieldChoices,
     external_reward_funcs : {""}]

\* the requests that pass every check of Init, one per pod
CoreInitRequests ==
    [pod : Pods, actions : {{[name |-> "a1", reward |-> GoodReward]}},
     fields : {{"f1"}}, external_reward_funcs : {""}]

\* the rows an AddData request carries
Batches == {{0, MaxTime}}

AddDataRequests == [pod : Pods, rows : Batches]

\* the names of training runs (request.flight)
Flights == {"fl1", "fl2"}

\* epoch_time 0 is the protobuf default: "not supplied"
StartTrainingRequests == [pod : Pods, epoch_time : Times, flight : Flights]

\* the StartTraining requests for one flight, with every epoch_time
OneFlightRequests == {request \in StartTrainingRequests : request.flight = "fl1"}

\* the StartTraining requests that supply no epoch_time, for every flight
PlainStartTrainingRequests == {request \in StartTrainingRequests : request.epoch_time = 0}

NoRequest == [pod |-> "", epoch_time |-> 0, flight |-> ""]

\* A training thread is known by the pod and the flight it was created with
\* (the args of threading.Thread).
Jobs == [pod : Pods, flight : Flights]

Job(request) == [pod |-> request.pod, flight |-> request.flight]

\* A path as the caller writes it: its segments, "" where the text has a
\* doubled or a trailing slash.
ImportPaths ==
    {<<"models", "m1">>, <<"models", "m1", "">>, <<"models", "empty">>,
     <<"models", "corrupt">>}

ImportModelRequests == [pod : Pods, import_path : ImportPaths]

ExportModelRequests == [pod : Pods, tag : {"latest", "v2"}]

AddInterpretationsRequests == [pod : Pods, indexed_interpretations : {{"i1"}}]

InferenceRequests == [pod : Pods]

\* ------------------------------------------------------------------- state

VARIABLES
    work_queue,          \* the commands waiting, oldest first
    enqueued,            \* how many commands were ever put
    applied,             \* the put-order numbers of the commands applied, in order
    calls,               \* how many StartTraining calls were ever made
    data_managers,       \* pod -> DataManager
    connector_managers,  \* pod -> ConnectorManager
    pc,                  \* worker -> where it is inside StartTraining
    req,                 \* worker -> the StartTraining request it serves
    tmp,                 \* worker -> the end_time it computed and has yet to store
    waiting,             \* job -> how many threads launched, not yet in train()
    training,            \* job -> how many threads inside Trainer.train()
    TRAINING_LOCK,       \* Trainer.TRAINING_LOCK is held
    SAVED_MODELS,        \* Trainer.SAVED_MODELS: pod -> path
    output,              \* what the step just taken sent out (a response, a POST)
    main_pc,             \* where the main thread is inside main()
    sigints,             \* how many SIGINT signals were delivered
    cleanup_depth,       \* runs of cleanup_on_shutdown begun and not ended
    cleanups             \* how many runs of cleanup_on_shutdown were begun

vars ==
    <<work_queue, enqueued, applied, calls, data_managers, connector_managers, pc, req,
      tmp, waiting, training, TRAINING_LOCK, SAVED_MODELS,
      output, main_pc, sigints, cleanup_depth, cleanups>>

queue_vars == <<work_queue, enqueued, applied>>
registry_vars == <<data_managers, connector_managers>>
worker_vars == <<pc, req, tmp>>
thread_vars == <<waiting, training, TRAINING_LOCK, SAVED_MODELS>>
shutdown_vars == <<main_pc, sigints, cleanup_depth, cleanups>>

NoOutput == [op |-> "none", worker |-> "", result |-> "", request |-> NoRequest]

Response(op, w, request, result) ==
    [op |-> op, worker |-> w, result |-> result, request |-> request]

\* waiting and training hold the jobs that have a thread, each with the
\* number of its threads
Count(threads, job) == IF job \in DOMAIN threads THEN threads[job] ELSE 0

\* a thread of the job more
Add(threads, job) ==
    [j \in DOMAIN threads \cup {job} |->
        IF j = job THEN Count(threads, j) + 1 ELSE threads[j]]

\* a thread of the job less
Remove(threads, job) ==
    [j \in {k \in DOMAIN threads : k # job \/ threads[k] > 1} |->
        IF j = job THEN threads[j] - 1 ELSE threads[j]]

\* the threads of a pod, over its flights
SumFlights(threads, pod) ==
    Count(threads, [pod |-> pod, flight |-> "fl1"])
    + Count(threads, [pod |-> pod, flight |-> "fl2"])

Sum(threads) ==
    IF threads = <<>> THEN 0 ELSE SumFlights(threads, "p1") + SumFlights(threads, "p2")
WaitingCount == Sum(waiting)
TrainingCount == Sum(training)
LiveJobs == WaitingCount + TrainingCount

Init ==
    /\ work_queue = <<>>
    /\ enqueued = 0
    /\ applied = <<>>
    /\ calls = 0
    /\ data_managers = <<>>
    /\ connector_managers = <<>>
    /\ pc = [w \in Workers |-> "idle"]
    /\ req = [w \in Workers |-> NoRequest]
    /\ tmp = [w \in Workers |-> 0]
    /\ waiting = <<>>
    /\ training = <<>>
    /\ TRAINING_LOCK = FALSE
    /\ SAVED_MODELS = <<>>
    /\ output = NoOutput
    /\ main_pc = "wait"
    /\ sigints = 0
    /\ cleanup_depth = 0
    /\ cleanups = 0

\* ------------------------------------------------- Init, AddData (the queue)

\* (a put that jumps the queue)
put_front(queue, item) == <<item>> \o queue

\* work_queue.put(item): multiprocessing.SimpleQueue appends under its write lock
put(queue, item) == Append(queue, item)

\* validate_rewards(action_rewards, external_reward_funcs): every reward
\* function is well formed and refers only to declared names.  It is handed the
\* actions and the external functions, not the fields, so the only names it can
\* hold against the declaration are the action names.
validate_rewards(action_rewards, external_reward_funcs) ==
    \A a \in action_rewards :
        /\ a.reward.wellformed
        /\ (a.reward.refs \cap ActionNames) \subseteq {b.name : b \in action_rewards}

\* (the checks with the one on the fields made first)
InitResult_fields_first(request) ==
    IF Cardinality(request.fields) = 0 THEN "missing_fields"
    ELSE IF Cardinality(request.actions) = 0 THEN "missing_actions"
    ELSE IF ~validate_rewards(request.actions, request.external_reward_funcs)
         THEN "invalid_reward_function"
    ELSE "ok"

\* The result code of Init: the three checks in the order the handler makes them.
InitResult(request) ==
    IF Cardinality(request.actions) = 0 THEN "missing_actions"
    ELSE IF ~validate_rewards(request.actions, request.external_reward_funcs)
         THEN "invalid_reward_function"
    ELSE IF Cardinality(request.fields) = 0 THEN "missing_fields"
    ELSE "ok"

\* (the put made before the checks)
InitEnqueues_always(result) == TRUE

\* (the put forgotten)
InitEnqueues_never(result) == FALSE

\* Init reaches work_queue.put only when no check returned early.
InitEnqueues(result) == result = "ok"

AIEngine_Init(request) ==
    LET result == InitResult(request) IN
    /\ IF InitEnqueues(result)
       THEN /\ enqueued < MaxCmds
            /\ work_queue' = put(work_queue, [kind |-> "init", request |-> request,
                                              seq |-> enqueued + 1])
            /\ enqueued' = enqueued + 1
       ELSE UNCHANGED <<work_queue, enqueued>>
    /\ output' = Response("Init", "", request, result)
    /\ UNCHANGED <<shutdown_vars, applied, calls, registry_vars, worker_vars, thread_vars>>

AIEngine_AddData(request) ==
    /\ enqueued < MaxCmds
    /\ work_queue' = put(work_queue, [kind |-> "add_data", request |-> request,
                                      seq |-> enqueued + 1])
    /\ enqueued' = enqueued + 1
    /\ output' = Response("AddData", "", request, "ok")
    /\ UNCHANGED <<shutdown_vars, applied, calls, registry_vars, worker_vars, thread_vars>>

\* ------------------------------------------------------------ the event loop

Range(s) == {s[i] : i \in 1..Len(s)}

RECURSIVE SortedSeq(_)
SortedSeq(S) ==
    IF S = {} THEN <<>>
    ELSE LET m == CHOOSE x \in S : \A y \in S : x <= y
         IN <<m>> \o SortedSeq(S \ {m})

\* DataManager(...) as built for an init command: the epoch window of the pod
\* and the table of filled rows (its index), which starts at the pod's epoch.
NewDataManager(request) ==
    [epoch_time |-> 0, end_time |-> 0 + PeriodSecs, period_secs |-> PeriodSecs,
     massive_table_filled |-> <<0>>, interpretations |-> {}]

\* the rows of an add_data command merged into the table, the index kept sorted
add_data(data_manager, rows) ==
    [data_manager EXCEPT
        !.massive_table_filled = SortedSeq(Range(@) \cup rows)]

\* EventLoop.run: take the oldest command and apply it.  A pod's handles are
\* created once, by the first init command for it; an add_data command for a
\* pod that has none fails without stopping the loop.
EventLoop_run ==
    /\ work_queue # <<>>
    /\ LET cmd == Head(work_queue)
           pod == cmd.request.pod
       IN /\ work_queue' = Tail(work_queue)
          /\ IF cmd.kind = "init"
             THEN IF pod \in DOMAIN data_managers
                  THEN UNCHANGED registry_vars
                  ELSE /\ data_managers' =
                            data_managers @@ (pod :> NewDataManager(cmd.request))
                       /\ connector_managers' = connector_managers @@ (pod :> "cm")
             ELSE /\ IF pod \in DOMAIN data_managers
                     THEN data_managers' =
                            [data_managers EXCEPT
                                ![pod] = add_data(@, cmd.request.rows)]
                     ELSE UNCHANGED data_managers
                  /\ UNCHANGED connector_managers
    /\ applied' = Append(applied, Head(work_queue).seq)
    /\ output' = NoOutput
    /\ UNCHANGED <<shutdown_vars, enqueued, calls, worker_vars, thread_vars>>

\* ------------------------------------------------------------ StartTraining

\* (a lookup that yields a default instead of raising)
KeyError_never(dict, key) == FALSE

\* data_managers[request.pod] raises KeyError for a key the dict does not hold
KeyError(dict, key) == key \notin DOMAIN dict

\* the DataManager a lookup yields
NoDataManager ==
    [epoch_time |-> 0, end_time |-> 0, period_secs |-> 0, massive_table_filled |-> <<>>,
     interpretations |-> {}]

Lookup(dict, key) == IF key \in DOMAIN dict THEN dict[key] ELSE NoDataManager

\* (the comparison off by one second)
EpochTooEarly_off_by_one(new_epoch_time, epoch_time) == new_epoch_time + 1 < epoch_time

\* new_epoch_time < data_manager.param.epoch_time
EpochTooEarly(new_epoch_time, epoch_time) == new_epoch_time < epoch_time

\* index.get_loc(key, "ffill"): the position of the last entry <= key, counted
\* from 1 here (pandas counts from 0); 0 stands for the KeyError it raises when
\* no entry is <= key.  The index is sorted.
get_loc(index, key) ==
    LET at_or_before == {i \in 1..Len(index) : index[i] <= key}
    IN IF at_or_before = {} THEN 0
       ELSE CHOOSE i \in at_or_before : \A j \in at_or_before : j <= i

\* (the length of the whole table, the slice forgotten)
len_iloc_whole(table, index_of_epoch) == Len(table)

\* len(table.iloc[index_of_epoch:])
len_iloc_from(table, index_of_epoch) == Len(table) - index_of_epoch + 1

\* len(...) < data_manager.get_window_span()
NotEnoughData(rows, window_span) == rows < window_span

\* (the test of the lock inverted)
DispatchRefused_inverted(locked) == ~locked

\* dispatch_train_agent returns False without starting a thread
DispatchRefused(locked) == locked

\* Lines 75-86: the two registry lookups and the check of a supplied epoch_time.
StartTraining_check(w, request) ==
    /\ pc[w] = "idle"
    /\ calls < MaxCalls
    /\ calls' = calls + 1
    /\ LET pod == request.pod
           data_manager == Lookup(data_managers, pod)
       IN IF KeyError(data_managers, pod) \/ KeyError(connector_managers, pod)
          THEN /\ output' = Response("StartTraining", w, request, "KeyError")
               /\ UNCHANGED worker_vars
          ELSE IF request.epoch_time # 0
          THEN IF EpochTooEarly(request.epoch_time, data_manager.epoch_time)
               THEN /\ output' = Response("StartTraining", w, request,
                                          "epoch_time_invalid")
                    /\ UNCHANGED worker_vars
               ELSE /\ pc' = [pc EXCEPT ![w] = "set_epoch"]
                    /\ req' = [req EXCEPT ![w] = request]
                    /\ output' = NoOutput
                    /\ UNCHANGED tmp
          ELSE /\ pc' = [pc EXCEPT ![w] = "data"]
               /\ req' = [req EXCEPT ![w] = request]
               /\ output' = NoOutput
               /\ UNCHANGED tmp
    /\ UNCHANGED <<shutdown_vars, queue_vars, registry_vars, thread_vars>>

\* Line 87: data_manager.param.epoch_time = new_epoch_time
StartTraining_set_epoch(w) ==
    /\ pc[w] = "set_epoch"
    /\ data_managers' =
          [data_managers EXCEPT ![req[w].pod].epoch_time = req[w].epoch_time]
    /\ pc' = [pc EXCEPT ![w] = "read_end"]
    /\ output' = NoOutput
    /\ UNCHANGED <<shutdown_vars, queue_vars, calls, connector_managers, req, tmp, thread_vars>>

\* Line 88, right-hand side: epoch_time is read back from the shared object
StartTraining_read_end(w) ==
    /\ pc[w] = "read_end"
    /\ LET data_manager == Lookup(data_managers, req[w].pod)
       IN tmp' = [tmp EXCEPT ![w] = data_manager.epoch_time + data_manager.period_secs]
    /\ pc' = [pc EXCEPT ![w] = "set_end"]
    /\ output' = NoOutput
    /\ UNCHANGED <<shutdown_vars, queue_vars, calls, registry_vars, req, thread_vars>>

\* Line 88, the store into end_time
StartTraining_set_end(w) ==
    /\ pc[w] = "set_end"
    /\ data_managers' = [data_managers EXCEPT ![req[w].pod].end_time = tmp[w]]
    /\ tmp' = [tmp EXCEPT ![w] = 0]
    /\ pc' = [pc EXCEPT ![w] = "data"]
    /\ output' = NoOutput
    /\ UNCHANGED <<shutdown_vars, queue_vars, calls, connector_managers, req, thread_vars>>

\* Lines 95-103: the rows from the epoch's position on, against the window span
StartTraining_data(w) ==
    /\ pc[w] = "data"
    /\ LET data_manager == Lookup(data_managers, req[w].pod)
           table == data_manager.massive_table_filled
           index_of_epoch == get_loc(table, data_manager.epoch_time)
       IN IF index_of_epoch = 0
          THEN /\ output' = Response("StartTraining", w, req[w], "KeyError")
               /\ pc' = [pc EXCEPT ![w] = "idle"]
               /\ req' = [req EXCEPT ![w] = NoRequest]
          ELSE IF NotEnoughData(len_iloc_from(table, index_of_epoch), WindowSpan)
          THEN /\ output' = Response("StartTraining", w, req[w],
                                     "not_enough_data_for_training")
               /\ pc' = [pc EXCEPT ![w] = "idle"]
               /\ req' = [req EXCEPT ![w] = NoRequest]
          ELSE /\ pc' = [pc EXCEPT ![w] = "dispatch"]
               /\ output' = NoOutput
               /\ UNCHANGED req
    /\ UNCHANGED <<shutdown_vars, queue_vars, calls, registry_vars, tmp, thread_vars>>

\* Lines 105-108 with dispatch_train_agent (48-58): the lock is only looked at,
\* never taken, before the thread is created and started.
StartTraining_dispatch(w) ==
    /\ pc[w] = "dispatch"
    /\ IF DispatchRefused(TRAINING_LOCK)
       THEN /\ output' = Response("StartTraining", w, req[w], "already_training")
            /\ UNCHANGED waiting
       ELSE /\ waiting' = Add(waiting, Job(req[w]))
            /\ output' = Response("StartTraining", w, req[w], "started_training")
    /\ pc' = [pc EXCEPT ![w] = "idle"]
    /\ req' = [req EXCEPT ![w] = NoRequest]
    /\ UNCHANGED <<shutdown_vars, queue_vars, calls, registry_vars, tmp, training, TRAINING_LOCK,
                   SAVED_MODELS>>

\* (a dict built anew around the one item)
setitem_fresh(dict, key, value) == [k \in {key} |-> value]

\* dict[key] = value
setitem(dict, key, value) ==
    [k \in DOMAIN dict \cup {key} |-> IF k = key THEN value ELSE dict[k]]

\* ------------------------------ GetHealth, AddInterpretations, GetInference

\* Line 63
AIEngine_GetHealth ==
    /\ output' = Response("GetHealth", "", NoRequest, "ok")
    /\ UNCHANGED <<shutdown_vars, queue_vars, calls, registry_vars, worker_vars,
                   thread_vars>>

\* data_manager.add_interpretations(...): the interpretations are kept with
\* those the pod has
add_interpretations(data_manager, indexed_interpretations) ==
    [data_manager EXCEPT !.interpretations = @ \cup indexed_interpretations]

\* Lines 70-73: the lookup raises KeyError for a pod the registry does not hold
AIEngine_AddInterpretations(request) ==
    /\ IF KeyError(data_managers, request.pod)
       THEN /\ output' = Response("AddInterpretations", "", request, "KeyError")
            /\ UNCHANGED data_managers
       ELSE /\ data_managers' =
                  [data_managers EXCEPT
                      ![request.pod] =
                          add_interpretations(@, request.indexed_interpretations)]
            /\ output' = Response("AddInterpretations", "", request, "ok")
    /\ UNCHANGED <<shutdown_vars, queue_vars, calls, connector_managers, worker_vars,
                   thread_vars>>

\* Lines 110-112: GetInferenceHandler(request, data_managers).get_result()
\* reads the registry and answers
AIEngine_GetInference(request) ==
    /\ output' = Response("GetInference", "", request, "InferenceResult")
    /\ UNCHANGED <<shutdown_vars, queue_vars, calls, registry_vars, worker_vars,
                   thread_vars>>

\* ------------------------------------------------- ExportModel, ImportModel

\* pathlib.Path(text): empty and "." segments are dropped
Path(text) == [parts |-> SelectSeq(text, LAMBDA segment : segment \notin {"", "."})]

\* (the last part alone, as path.name gives it)
str_name(path) == <<path.parts[Len(path.parts)]>>

\* str(path): the parts joined again
str(path) == path.parts

\* (import_path / "meta.json").exists(): the directories that hold a meta.json
meta_json_exists(import_path) ==
    import_path.parts \in {<<"models", "m1">>, <<"models", "corrupt">>}

\* get_agent(...) and agent.load(import_path): the directories that hold a
\* model the agent named in meta.json can load
agent_load(import_path) == import_path.parts = <<"models", "m1">>

\* (the tag looked at before the registries)
ExportModelCode_tag_first(request, saved_models, managers) ==
    IF request.tag # "latest" THEN "tag_not_yet_supported"
    ELSE IF request.pod \notin DOMAIN saved_models THEN "pod_not_trained"
    ELSE IF request.pod \notin DOMAIN managers THEN "ValueError"
    ELSE "ok"

\* Lines 131-149: the checks of ExportModel in the order the handler makes them.
\* The second branch builds its result with a keyword the message does not
\* have ("resopnse"), which raises ValueError instead of answering.
ExportModelCode(request, saved_models, managers) ==
    IF request.pod \notin DOMAIN saved_models THEN "pod_not_trained"
    ELSE IF request.pod \notin DOMAIN managers THEN "ValueError"
    ELSE IF request.tag # "latest" THEN "tag_not_yet_supported"
    ELSE "ok"

\* ExportModelResult(response=Response(result=...), model_path=...)
ExportModelResult(request, result, model_path) ==
    [op |-> "ExportModel", worker |-> "", result |-> result, request |-> request,
     model_path |-> model_path]

\* Line 151: model_path=str(Trainer.SAVED_MODELS[request.pod]); the field is
\* left empty by the other results
ExportModelPath(request, result, saved_models) ==
    IF result = "ok" THEN str(saved_models[request.pod]) ELSE <<>>

AIEngine_ExportModel(request) ==
    LET result == ExportModelCode(request, SAVED_MODELS, data_managers) IN
    /\ output' = ExportModelResult(request, result,
                                   ExportModelPath(request, result, SAVED_MODELS))
    /\ UNCHANGED <<shutdown_vars, queue_vars, calls, registry_vars, worker_vars, thread_vars>>

\* (the pod not looked up in the registry)
ImportModelCode_no_lookup(request, managers) ==
    IF ~meta_json_exists(Path(request.import_path))
    THEN "unable_to_load_model_metadata"
    ELSE IF ~agent_load(Path(request.import_path)) THEN "unable_to_load_model"
    ELSE "ok"

\* Lines 154-173: the checks of ImportModel in the order the handler makes them
ImportModelCode(request, managers) ==
    IF request.pod \notin DOMAIN managers THEN "pod_not_initialized"
    ELSE IF ~meta_json_exists(Path(request.import_path))
         THEN "unable_to_load_model_metadata"
    ELSE IF ~agent_load(Path(request.import_path)) THEN "unable_to_load_model"
    ELSE "ok"

\* (the registry written before the model is loaded)
ImportModelRecords_always(result) == result # "pod_not_initialized"

\* Line 177 is reached only when no check returned early.
ImportModelRecords(result) == result = "ok"

AIEngine_ImportModel(request) ==
    LET result == ImportModelCode(request, data_managers) IN
    /\ IF ImportModelRecords(result)
       THEN SAVED_MODELS' = setitem(SAVED_MODELS, request.pod, Path(request.import_path))
       ELSE UNCHANGED SAVED_MODELS
    /\ output' = Response("ImportModel", "", request, result)
    /\ UNCHANGED <<shutdown_vars, queue_vars, calls, registry_vars, worker_vars, waiting, training,
                   TRAINING_LOCK>>

\* --------------------------------------------------------- training threads

\* (train() entered without waiting for the lock)
CanAcquire_always(locked) == TRUE

\* Trainer.train() runs under Trainer.TRAINING_LOCK: it can take it when free
CanAcquire(locked) == ~locked

\* what the lock is after train() has left, returning or raising
Released(locked) == FALSE

\* the artifact directory a finished run of the pod saves
TrainedPath(pod) == [parts |-> <<"trained", pod>>]

\* train_agent, line 42: the thread enters Trainer.train() and takes the lock
Trainer_train_enter(job) ==
    /\ Count(waiting, job) > 0
    /\ CanAcquire(TRAINING_LOCK)
    /\ waiting' = Remove(waiting, job)
    /\ training' = Add(training, job)
    /\ TRAINING_LOCK' = TRUE
    /\ output' = NoOutput
    /\ UNCHANGED <<shutdown_vars, queue_vars, calls, registry_vars, worker_vars,
                   SAVED_MODELS>>

\* train() returns: the model is saved and recorded, the lock released
Trainer_train_return(job) ==
    /\ Count(training, job) > 0
    /\ training' = Remove(training, job)
    /\ TRAINING_LOCK' = Released(TRAINING_LOCK)
    /\ SAVED_MODELS' = setitem(SAVED_MODELS, job.pod, TrainedPath(job.pod))
    /\ output' = NoOutput
    /\ UNCHANGED <<shutdown_vars, queue_vars, calls, registry_vars, worker_vars, waiting>>

\* (the address built from the pod alone, the flight left out)
request_url_no_flight(pod_name, flight) ==
    <<"BASE_URL", pod_name, "training_runs", "episodes">>

\* Line 44: Trainer.BASE_URL + f"/{pod_name}/training_runs/{flight}/episodes"
request_url(pod_name, flight) ==
    <<"BASE_URL", pod_name, "training_runs", flight, "episodes">>

\* Line 45: requests.post(request_url, json=UnexpectedException(...).get_error_body())
requests_post(url, body) ==
    [op |-> "POST", worker |-> "", result |-> body, request |-> NoRequest, url |-> url]

\* train() raises: lines 43-45 post the error to the episodes endpoint
train_agent_except(job) ==
    /\ Count(training, job) > 0
    /\ training' = Remove(training, job)
    /\ TRAINING_LOCK' = Released(TRAINING_LOCK)
    /\ output' = requests_post(request_url(job.pod, job.flight), "UnexpectedException")
    /\ UNCHANGED <<shutdown_vars, queue_vars, calls, registry_vars, worker_vars, waiting,
                   SAVED_MODELS>>

\* ----------------------------------------------------------------- shutdown

\* The main thread, once the server and the event loop are started, is inside
\* wait_parent_process() (line 207).  cleanup_on_shutdown is the handler of
\* SIGINT (line 197), which Python runs on the main thread between two of its
\* instructions, wherever it is; and main calls it after the wait (line 208).

\* A SIGINT is delivered: the handler begins a run of cleanup_on_shutdown on
\* top of whatever the main thread was doing.
SIGINT ==
    /\ main_pc \in {"wait", "cleanup"}
    /\ sigints < MaxSignals
    /\ sigints' = sigints + 1
    /\ cleanups' = cleanups + 1
    /\ cleanup_depth' = cleanup_depth + 1
    /\ output' = NoOutput
    /\ UNCHANGED <<main_pc, queue_vars, calls, registry_vars, worker_vars, thread_vars>>

\* The parent process has ended: parent_process.wait() returns (line 186) and
\* main calls cleanup_on_shutdown() (line 208).
wait_parent_process ==
    /\ main_pc = "wait"
    /\ cleanup_depth = 0
    /\ main_pc' = "cleanup"
    /\ cleanups' = cleanups + 1
    /\ cleanup_depth' = cleanup_depth + 1
    /\ output' = NoOutput
    /\ UNCHANGED <<sigints, queue_vars, calls, registry_vars, worker_vars, thread_vars>>

\* The innermost run of cleanup_on_shutdown ends: it ends the process, or it
\* returns to what the main thread was doing (an outer run, the wait, or the
\* end of main).
cleanup_on_shutdown(exits) ==
    /\ cleanup_depth > 0
    /\ IF exits
       THEN /\ main_pc' = "exited"
            /\ cleanup_depth' = 0
       ELSE /\ cleanup_depth' = cleanup_depth - 1
            /\ main_pc' = IF main_pc = "cleanup" /\ cleanup_depth = 1
                          THEN "done" ELSE main_pc
    /\ output' = NoOutput
    /\ UNCHANGED <<sigints, cleanups, queue_vars, calls, registry_vars, worker_vars,
                   thread_vars>>

\* ------------------------------------------------------------ specification

\* The command pipeline, StartTraining and the training threads.  Init is
\* offered the well-formed requests only (a rejected one changes nothing but
\* the response, and GatewaySpec below offers them all) and StartTraining one
\* flight (TrainingSpec below offers them all).
Next ==
    \/ \E request \in CoreInitRequests : AIEngine_Init(request)
    \/ \E request \in AddDataRequests : AIEngine_AddData(request)
    \/ EventLoop_run
    \/ \E w \in Workers, request \in OneFlightRequests :
          StartTraining_check(w, request)
    \/ \E w \in Workers : StartTraining_set_epoch(w)
    \/ \E w \in Workers : StartTraining_read_end(w)
    \/ \E w \in Workers : StartTraining_set_end(w)
    \/ \E w \in Workers : StartTraining_data(w)
    \/ \E w \in Workers : StartTraining_dispatch(w)
    \/ \E job \in Jobs : Trainer_train_enter(job)
    \/ \E job \in Jobs : Trainer_train_return(job)
    \/ \E job \in Jobs : train_agent_except(job)

Spec == Init /\ [][Next]_vars

\* The gateway's validation and the command pipeline alone, over every Init
\* request of InitRequests.
GatewayNext ==
    \/ \E request \in InitRequests : AIEngine_Init(request)
    \/ \E request \in AddDataRequests : AIEngine_AddData(request)
    \/ EventLoop_run

GatewaySpec == Init /\ [][GatewayNext]_vars

\* The same with the event loop scheduled fairly: event_loop.start() (lines
\* 204-205) gives the loop a thread of its own, which does nothing but take
\* commands off the queue, so a command that waits is taken in the end.
FairGatewaySpec == GatewaySpec /\ WF_vars(EventLoop_run)

\* the StartTraining requests for one flight that supply no epoch_time
OnePlainFlightRequests == OneFlightRequests \cap PlainStartTrainingRequests

\* The two registries and everything that writes or reads them: the command
\* pipeline, training runs of one flight started without an epoch_time,
\* ExportModel and ImportModel.
RegistryNext ==
    \/ \E request \in CoreInitRequests : AIEngine_Init(request)
    \/ \E request \in AddDataRequests : AIEngine_AddData(request)
    \/ EventLoop_run
    \/ \E w \in Workers, request \in OnePlainFlightRequests :
          StartTraining_check(w, request)
    \/ \E w \in Workers : StartTraining_data(w)
    \/ \E w \in Workers : StartTraining_dispatch(w)
    \/ \E job \in Jobs : Trainer_train_enter(job)
    \/ \E job \in Jobs : Trainer_train_return(job)
    \/ \E job \in Jobs : train_agent_except(job)
    \/ \E request \in ExportModelRequests : AIEngine_ExportModel(request)
    \/ \E request \in ImportModelRequests : AIEngine_ImportModel(request)

RegistrySpec == Init /\ [][RegistryNext]_vars

\* The training runs of every flight, started without an epoch_time, and what
\* becomes of them.
TrainingNext ==
    \/ \E request \in CoreInitRequests : AIEngine_Init(request)
    \/ \E request \in AddDataRequests : AIEngine_AddData(request)
    \/ EventLoop_run
    \/ \E w \in Workers, request \in PlainStartTrainingRequests :
          StartTraining_check(w, request)
    \/ \E w \in Workers : StartTraining_data(w)
    \/ \E w \in Workers : StartTraining_dispatch(w)
    \/ \E job \in Jobs : Trainer_train_enter(job)
    \/ \E job \in Jobs : Trainer_train_return(job)
    \/ \E job \in Jobs : train_agent_except(job)

TrainingSpec == Init /\ [][TrainingNext]_vars

\* one directory that loads and one that holds no meta.json
TwoImportRequests ==
    [pod : Pods, import_path : {<<"models", "m1">>, <<"models", "empty">>}]

LatestExportRequests == [pod : Pods, tag : {"latest"}]

\* Every operation of the gateway, with the event loop and the training
\* threads: what can write a registry.  StartTraining is offered one flight
\* and no epoch_time (the epoch window is no key of a registry), ExportModel
\* the tag "latest", ImportModel two directories; RegistrySpec above offers
\* them all.
FrameNext ==
    \/ AIEngine_GetHealth
    \/ \E request \in AddInterpretationsRequests : AIEngine_AddInterpretations(request)
    \/ \E request \in InferenceRequests : AIEngine_GetInference(request)
    \/ \E request \in CoreInitRequests : AIEngine_Init(request)
    \/ \E request \in AddDataRequests : AIEngine_AddData(request)
    \/ EventLoop_run
    \/ \E w \in Workers, request \in OnePlainFlightRequests :
          StartTraining_check(w, request)
    \/ \E w \in Workers : StartTraining_data(w)
    \/ \E w \in Workers : StartTraining_dispatch(w)
    \/ \E job \in Jobs : Trainer_train_enter(job)
    \/ \E job \in Jobs : Trainer_train_return(job)
    \/ \E job \in Jobs : train_agent_except(job)
    \/ \E request \in LatestExportRequests : AIEngine_ExportModel(request)
    \/ \E request \in TwoImportRequests : AIEngine_ImportModel(request)

FrameSpec == Init /\ [][FrameNext]_vars

\* The main thread's way out, while the gateway and the event loop go on serving.
ShutdownNext ==
    \/ SIGINT
    \/ wait_parent_process
    \/ \E exits \in BOOLEAN : cleanup_on_shutdown(exits)
    \/ \E request \in CoreInitRequests : AIEngine_Init(request)
    \/ \E request \in AddDataRequests : AIEngine_AddData(request)
    \/ EventLoop_run

ShutdownSpec == Init /\ [][ShutdownNext]_vars

\* ------------------------------------------------------------------ claims

Known(pod) == pod \in DOMAIN data_managers
Table(pod) == data_managers[pod].massive_table_filled
Epoch(pod) == data_managers[pod].epoch_time

\* the step is worker w's, and it ends w's StartTraining call at its first step
ReturnsAtOnce(w) ==
    /\ pc[w] = "idle"
    /\ output'.op = "StartTraining"
    /\ output'.worker = w

\* the step is worker w's and takes its call past the first step
Proceeds(w) == pc[w] = "idle" /\ pc'[w] # "idle"

\* C1: in every reachable state at most one training thread is inside
\* Trainer.train(), over both pods, however the StartTraining calls interleave.
C1_OneTrainingRun == TrainingCount <= 1

\* a thread trains while a second one, launched by another call, is alive
C1_Witness == TrainingCount = 1 /\ WaitingCount >= 1

\* C2 (as claimed): a StartTraining call returns started_training only when no
\* training run is alive (launched and not yet finished), and returns
\* already_training whenever one is.
C2_Claim ==
    [][(output'.op = "StartTraining"
        /\ output'.result \in {"started_training", "already_training"})
       => (output'.result = "started_training" <=> LiveJobs = 0)]_vars

\* C3: a training thread that leaves train(), by return or by exception, leaves
\* the lock free, and a dispatch that finds the lock free starts a thread and
\* answers started_training.
C3_IdleAfterRun ==
    [][/\ TrainingCount' < TrainingCount => ~TRAINING_LOCK'
       /\ \A w \in Workers :
             (pc[w] = "dispatch" /\ pc'[w] = "idle" /\ ~TRAINING_LOCK)
             => /\ output'.result = "started_training"
                /\ WaitingCount' = WaitingCount + 1]_vars

\* a run has finished and the call dispatched after it was told started_training
C3_Witness ==
    /\ output.op = "StartTraining"
    /\ output.result = "started_training"
    /\ SAVED_MODELS # <<>>
    /\ TrainingCount = 0
    /\ WaitingCount = 1

\* C4: the event loop applies the commands in exactly the order they were put:
\* the k-th command applied is the k-th command put, whoever put it.
C4_Fifo == \A i \in 1..Len(applied) : applied[i] = i

\* an init and then an add_data for the same pod have both been applied
C4_Witness ==
    /\ Len(applied) >= 2
    /\ \E pod \in Pods : Known(pod) /\ Len(Table(pod)) >= 2

InitErrors == {"missing_actions", "invalid_reward_function", "missing_fields"}

\* C5: an Init answered with one of the three validation errors puts nothing on
\* the work queue and leaves both registries as they are; so every init command
\* the event loop will ever meet carries a request with an action and a field.
C5_RejectedInitNoEffect ==
    /\ [](\A i \in 1..Len(work_queue) :
            work_queue[i].kind = "init"
            => /\ work_queue[i].request.actions # {}
               /\ work_queue[i].request.fields # {})
    /\ [][(output'.op = "Init" /\ output'.result \in InitErrors)
          => UNCHANGED <<work_queue, enqueued, applied, data_managers,
                         connector_managers>>]_vars

\* an Init was rejected while a command was waiting
C5_Witness ==
    /\ output.op = "Init"
    /\ output.result \in InitErrors
    /\ work_queue # <<>>

Declared(request) == {a.name : a \in request.actions} \cup request.fields

\* some reward function of the request names an action or a field not declared
RefersUndeclared(request) ==
    \E a \in request.actions : ~(a.reward.refs \subseteq Declared(request))

\* some reward function of the request is malformed or names an undeclared action
RewardsRejected(request) ==
    \E a \in request.actions :
        \/ ~a.reward.wellformed
        \/ \E n \in a.reward.refs \cap ActionNames :
              n \notin {b.name : b \in request.actions}

C7_Claim ==
    [][\A pod \in DOMAIN data_managers :
          data_managers'[pod].epoch_time >= data_managers[pod].epoch_time]_vars

\* the request supplies an epoch_time strictly earlier than the pod's
Early(request) ==
    /\ Known(request.pod)
    /\ request.epoch_time # 0
    /\ request.epoch_time < Epoch(request.pod)

\* C8: a StartTraining call that supplies an epoch_time strictly earlier than
\* the pod's never gets past the check: it is answered epoch_time_invalid in
\* the same step, with the epoch window and the training threads untouched.
C8_EarlyEpochRejected ==
    [][\A w \in Workers :
          /\ Proceeds(w) => ~Early(req'[w])
          /\ (ReturnsAtOnce(w) /\ Early(output'.request))
             => /\ output'.result = "epoch_time_invalid"
                /\ UNCHANGED <<data_managers, waiting, training, TRAINING_LOCK>>]_vars

\* a call was answered epoch_time_invalid for a pod whose epoch had moved
C8_Witness ==
    /\ output.op = "StartTraining"
    /\ output.result = "epoch_time_invalid"
    /\ Epoch(output.request.pod) > output.request.epoch_time

\* the rows of the pod's table at or after its epoch
RowsAtOrAfterEpoch(pod) ==
    Cardinality({i \in 1..Len(Table(pod)) : Table(pod)[i] >= Epoch(pod)})

\* the pod's table has a row at or before its epoch
HasRowAtOrBeforeEpoch(pod) ==
    \E i \in 1..Len(Table(pod)) : Table(pod)[i] <= Epoch(pod)

\* the rows of the pod's table from the last one at or before its epoch on
RowsFromLastAtOrBeforeEpoch(pod) ==
    Cardinality({i \in 1..Len(Table(pod)) :
                    \A j \in 1..Len(Table(pod)) :
                        Table(pod)[j] <= Epoch(pod) => Table(pod)[j] <= Table(pod)[i]})

\* the step is worker w's step over the table (lines 95-103)
DataStep(w) == pc[w] = "data" /\ pc'[w] # "data"

C10_UnknownPod ==
    [][\A w \in Workers :
          /\ Proceeds(w) => Known(req'[w].pod)
          /\ (ReturnsAtOnce(w) /\ ~Known(output'.request.pod))
             => /\ output'.result = "KeyError"
                /\ UNCHANGED <<data_managers, connector_managers, waiting, training,
                               TRAINING_LOCK, SAVED_MODELS>>]_vars

\* the call failed for a pod whose init command was still waiting in the queue
C10_Witness ==
    /\ output.op = "StartTraining"
    /\ output.result = "KeyError"
    /\ \E i \in 1..Len(work_queue) :
          /\ work_queue[i].kind = "init"
          /\ work_queue[i].request.pod = output.request.pod

HasModelRecord(pod) == pod \in DOMAIN SAVED_MODELS

\* C11 (as claimed): an ExportModel call with a tag other than "latest" is
\* answered tag_not_yet_supported, whether or not the pod has a ModelRecord.
C11_Claim ==
    (output.op = "ExportModel" /\ output.request.tag # "latest")
    => output.result = "tag_not_yet_supported"

\* C11 (amended): an ExportModel call with a tag other than "latest" is
\* answered tag_not_yet_supported when the pod has a ModelRecord, and
\* pod_not_trained when it has none: the record is looked for before the tag.
C11_TagAfterRecord ==
    (output.op = "ExportModel" /\ output.request.tag # "latest")
    => output.result = IF HasModelRecord(output.request.pod)
                       THEN "tag_not_yet_supported"
                       ELSE "pod_not_trained"

\* tag "v2" was refused for a pod that has a ModelRecord
C11_Witness ==
    /\ output.op = "ExportModel"
    /\ output.request.tag = "v2"
    /\ HasModelRecord(output.request.pod)
    /\ output.result = "tag_not_yet_supported"

\* what ExportModel(pod, "latest") answers over the given registries
ExportLatest(pod, saved_models, managers) ==
    LET request == [pod |-> pod, tag |-> "latest"]
        result == ExportModelCode(request, saved_models, managers)
    IN [result |-> result,
        model_path |-> ExportModelPath(request, result, saved_models)]

\* the step is a training run of the pod returning from train()
TrainingSucceeds(pod) ==
    \E job \in Jobs :
        /\ job.pod = pod
        /\ Count(training', job) < Count(training, job)
        /\ output'.op # "POST"

\* the step is an ImportModel call for the pod answered ok
ImportSucceeds(pod) ==
    /\ output'.op = "ImportModel"
    /\ output'.request.pod = pod
    /\ output'.result = "ok"

\* C12: ExportModel(pod, "latest") answers pod_not_trained from the start and
\* until a training run of the pod succeeds or an import for it is answered ok;
\* from then on it answers ok with the path recorded last: the trained
\* artifact's after a run, the imported directory's after an import.  No other
\* step changes its answer, and a call made is answered just so.
C12_ExportLatest ==
    /\ \A pod \in Pods :
          ExportLatest(pod, SAVED_MODELS, data_managers).result = "pod_not_trained"
    /\ [][\A pod \in Pods :
            LET before == ExportLatest(pod, SAVED_MODELS, data_managers)
                after == ExportLatest(pod, SAVED_MODELS', data_managers')
            IN /\ TrainingSucceeds(pod)
                  => after = [result |-> "ok", model_path |-> <<"trained", pod>>]
               /\ ImportSucceeds(pod)
                  => after = [result |-> "ok",
                              model_path |-> Path(output'.request.import_path).parts]
               /\ ~TrainingSucceeds(pod) /\ ~ImportSucceeds(pod) => after = before
               /\ (/\ output'.op = "ExportModel"
                   /\ output'.request = [pod |-> pod, tag |-> "latest"])
                  => /\ output'.result = before.result
                     /\ output'.model_path = before.model_path]_vars

\* a training run of the pod succeeded and an export after it was answered
\* with the trained artifact's path
C12_Witness ==
    /\ output.op = "ExportModel"
    /\ output.result = "ok"
    /\ output.model_path = <<"trained", output.request.pod>>
    /\ calls > 0

\* the step is an ImportModel call
ImportStep == output'.op = "ImportModel"

\* the step is ExportModel(pod, "latest") made right after an ImportModel call
\* for the same pod was answered ok
ExportRightAfterImport ==
    /\ output.op = "ImportModel"
    /\ output.result = "ok"
    /\ output'.op = "ExportModel"
    /\ output'.request = [pod |-> output.request.pod, tag |-> "latest"]

\* the step, if an ImportModel call, leaves the model registry as it is unless
\* it answers ok, and then records Path(import_path) for the pod and nothing else
ImportRecordsIffOk ==
    /\ (ImportStep /\ output'.result # "ok") => UNCHANGED SAVED_MODELS
    /\ (ImportStep /\ output'.result = "ok")
       => /\ DOMAIN SAVED_MODELS' = DOMAIN SAVED_MODELS \cup {output'.request.pod}
          /\ \A pod \in DOMAIN SAVED_MODELS' :
                SAVED_MODELS'[pod] =
                   IF pod = output'.request.pod
                   THEN Path(output'.request.import_path)
                   ELSE SAVED_MODELS[pod]

\* C13 (as claimed): ImportModel writes the model registry exactly when it
\* answers ok, and the ExportModel(pod, "latest") that follows an ok import at
\* once returns the import_path of the request, as it was written.
C13_Claim ==
    [][/\ ImportRecordsIffOk
       /\ ExportRightAfterImport
          => /\ output'.result = "ok"
             /\ output'.model_path = output.request.import_path]_vars

\* C13 (amended): ImportModel writes the model registry exactly when it
\* answers ok, and the ExportModel(pod, "latest") that follows an ok import at
\* once returns the path recorded, as text: import_path with its empty and "."
\* segments dropped, which is import_path itself only when it has none.
C13_ImportRecordsIffOk ==
    [][/\ ImportRecordsIffOk
       /\ ExportRightAfterImport
          => /\ output'.result = "ok"
             /\ output'.model_path = Path(output.request.import_path).parts]_vars

\* an imported directory was exported
C13_Witness ==
    /\ output.op = "ExportModel"
    /\ output.request.tag = "latest"
    /\ output.result = "ok"
    /\ output.model_path = <<"models", "m1">>

\* C14 (as claimed): whatever SIGINT signals are delivered and whenever the
\* parent ends, cleanup_on_shutdown is run once: never a second time, and once
\* by the time the main thread is through.
C14_Claim ==
    /\ cleanups <= 1
    /\ main_pc \in {"done", "exited"} => cleanups = 1

\* the step is a training thread of the job leaving Trainer.train()
ThreadLeaves(job) == Count(training', job) < Count(training, job)

\* the episodes endpoint of a pod's flight
EpisodesEndpoint(pod, flight) == <<"BASE_URL", pod, "training_runs", flight, "episodes">>

\* C15: a training thread leaves train() in one of two ways.  Returning, it
\* records the pod's model and sends nothing.  Raising, it sends one POST, to
\* the episodes endpoint of its own pod and flight, and leaves the model
\* registry as it was; no StartTraining call is answered or touched by that
\* step (the call that launched the thread was answered started_training when
\* it launched it).  And a POST is only ever sent by such a step.
C15_FailureReportedOutOfBand ==
    [][/\ \A job \in Jobs :
             ThreadLeaves(job)
             => \/ /\ output' = NoOutput
                   /\ HasModelRecord(job.pod)'
                   /\ SAVED_MODELS'[job.pod] = TrainedPath(job.pod)
                \/ /\ output'.op = "POST"
                   /\ output'.url = EpisodesEndpoint(job.pod, job.flight)
                   /\ UNCHANGED <<SAVED_MODELS, pc, req, tmp, waiting>>
       /\ output'.op = "POST" => \E job \in Jobs : ThreadLeaves(job)
       /\ (\E w \in Workers : pc[w] = "dispatch" /\ pc'[w] = "idle"
                              /\ Count(waiting', Job(req[w])) > Count(waiting, Job(req[w])))
          => output'.result = "started_training"]_vars

\* the run of flight fl2 of a pod that has a ModelRecord raised and was reported
C15_Witness ==
    /\ output.op = "POST"
    /\ \E pod \in Pods :
          /\ HasModelRecord(pod)
          /\ output.url = EpisodesEndpoint(pod, "fl2")

\* an init command for the pod is waiting in the queue
InitWaiting(pod) ==
    \E i \in 1..Len(work_queue) :
        work_queue[i].kind = "init" /\ work_queue[i].request.pod = pod

\* the step is the event loop taking an init command for the pod off the queue
InitApplied(pod) ==
    /\ work_queue # <<>>
    /\ Head(work_queue).kind = "init"
    /\ Head(work_queue).request.pod = pod
    /\ work_queue' = Tail(work_queue)

\* C16: an Init answered ok appends an init command for its request to the
\* queue and leaves the registries as they are; a pod enters the registry only
\* in a step of the event loop that takes an init command for it off the
\* queue; and with the event loop scheduled fairly, a pod with an init command
\* waiting is in the registry in the end.
C16_InitAppliedLater ==
    /\ [][(output'.op = "Init" /\ output'.result = "ok")
          => /\ UNCHANGED <<data_managers, connector_managers>>
             /\ Len(work_queue') = Len(work_queue) + 1
             /\ work_queue'[Len(work_queue')].kind = "init"
             /\ work_queue'[Len(work_queue')].request = output'.request]_vars
    /\ [][\A pod \in Pods : (~Known(pod) /\ Known(pod)') => InitApplied(pod)]_vars
    /\ \A pod \in Pods : InitWaiting(pod) ~> Known(pod)

\* Init has just been answered ok for a pod that is not in the registry, while
\* the other pod, initialised before, is
C16_Witness ==
    /\ output.op = "Init"
    /\ output.result = "ok"
    /\ ~Known(output.request.pod)
    /\ InitWaiting(output.request.pod)
    /\ \E pod \in Pods : Known(pod)

\* C17: no step removes a key from the pod registry or from the model
\* registry.  A key enters the pod registry only in a step of the event loop
\* that takes an init command for it off the queue, so in no step of the
\* gateway; and a key enters the model registry only in a step of a training
\* thread of the pod returning from train() or in an ImportModel call for the
\* pod answered ok, which is the one gateway operation that puts one in.
C17_RegistriesOnlyGrow ==
    [][/\ DOMAIN data_managers \subseteq DOMAIN data_managers'
       /\ DOMAIN connector_managers \subseteq DOMAIN connector_managers'
       /\ DOMAIN SAVED_MODELS \subseteq DOMAIN SAVED_MODELS'
       /\ \A pod \in Pods :
             /\ (~Known(pod) /\ Known(pod)') => (InitApplied(pod) /\ output' = NoOutput)
             /\ (~HasModelRecord(pod) /\ HasModelRecord(pod)')
                => \/ TrainingSucceeds(pod)
                   \/ ImportSucceeds(pod)]_vars

\* a pod the event loop initialised has a model that was imported, and the
\* gateway has since been asked about its health
C17_Witness ==
    /\ output.op = "GetHealth"
    /\ \E pod \in Pods :
          /\ Known(pod)
          /\ HasModelRecord(pod)
          /\ SAVED_MODELS[pod] = Path(<<"models", "m1">>)

\* C18: every pod that has a ModelRecord is in the pod registry, and no
\* ExportModel call ever takes the branch of line 138, which it could only for
\* a pod with a ModelRecord and no DataManager.
C18_RecordedPodsKnown ==
    /\ \A pod \in Pods : HasModelRecord(pod) => Known(pod)
    /\ output.op = "ExportModel"
       => output.result \in {"pod_not_trained", "tag_not_yet_supported", "ok"}

\* ExportModel was answered ok for a pod that was trained
C18_Witness ==
    /\ output.op = "ExportModel"
    /\ output.result = "ok"
    /\ Known(output.request.pod)
    /\ SAVED_MODELS[output.request.pod] = TrainedPath(output.request.pod)
    /\ \E pod \in Pods : ~Known(pod)

\* a StartTraining call for the pod is under way
InProgress(pod) == \E w \in Workers : pc[w] # "idle" /\ req[w].pod = pod

\* the pod's epoch window is as line 88 leaves it
WindowConsistent(pod) ==
    data_managers[pod].end_time =
        data_managers[pod].epoch_time + data_managers[pod].period_secs

\* C19 (as claimed): a pod whose epoch_time StartTraining has set (it is not
\* the 0 the pod was created with) and for which no StartTraining call is
\* under way has end_time = epoch_time + period_secs.
C19_Claim ==
    \A pod \in DOMAIN data_managers :
        (Epoch(pod) # 0 /\ ~InProgress(pod)) => WindowConsistent(pod)

\* C20 (as claimed): when a StartTraining call that supplied an epoch_time is
\* answered not_enough_data_for_training or already_training, the pod's
\* epoch_time is the one supplied and end_time is period_secs after it.
C20_Claim ==
    (/\ output.op = "StartTraining"
     /\ output.request.epoch_time # 0
     /\ output.result \in {"not_enough_data_for_training", "already_training"})
    => /\ Epoch(output.request.pod) = output.request.epoch_time
       /\ WindowConsistent(output.request.pod)

====
